---- MODULE Spec2Model ----
(***************************************************************************)
(* Due-reminder notification dispatcher of cleansort-server                *)
(* (src/server.js: checkAndSendNotifications, startNotificationScheduler,  *)
(* POST /api/notifications/trigger).                                       *)
(*                                                                         *)
(* The Node.js process is single threaded: code between two `await`s runs  *)
(* atomically, and several invocations of checkAndSendNotifications        *)
(* interleave only at their awaits.  Every action below is one such        *)
(* segment: it starts where a store or gateway call returns (or throws)    *)
(* and runs to the next call.  A store operation takes effect in the step  *)
(* in which it returns.  Time is in milliseconds.                          *)
(***************************************************************************)
EXTENDS Integers, Sequences, FiniteSets, TLC

(***************************************************************************)
(* Program constants (milliseconds, as written in the source).             *)
(***************************************************************************)
LookaheadMs == 60 * 60 * 1000
DebounceMs == 5 * 60 * 1000
StartupDelayMs == 10000
IntervalMs == 5 * 60 * 1000
SiblingLimit == 10

(***************************************************************************)
(* Bounds of the model.                                                    *)
(***************************************************************************)
MaxUptime == 300000
MaxTriggers == 1
MaxFaults == 1

\* the process boots at 00:05:00.000Z, so that `now - 5 minutes` is an
\* instant of the same day
BootTime == 5 * 60 * 1000

Slots == {1, 2}

None == 0 - 1

(***************************************************************************)
(* Date.prototype.toISOString and string comparison.  Every instant of the *)
(* model lies in the first day of the epoch, so the date part              *)
(* "1970-01-01T" and the trailing "Z" are the same in every string; the    *)
(* model keeps the nine digits of HH:mm:ss.sss.  Strings are compared the  *)
(* way JavaScript compares them: position by position.                     *)
(***************************************************************************)
toISOString(t) ==
  LET h  == t \div 3600000
      m  == (t \div 60000) % 60
      s  == (t \div 1000) % 60
      ms == t % 1000
  IN  << h \div 10, h % 10, m \div 10, m % 10, s \div 10, s % 10,
         ms \div 100, (ms \div 10) % 10, ms % 10 >>

RECURSIVE StrLess(_, _)
StrLess(a, b) ==
  IF a = << >> THEN b # << >>
  ELSE IF b = << >> THEN FALSE
  ELSE IF Head(a) # Head(b) THEN Head(a) < Head(b)
  ELSE StrLess(Tail(a), Tail(b))

StrLeq(a, b) == a = b \/ StrLess(a, b)

\* new Date(s).getTime() for a string produced by toISOString
DateParse(s) ==
  ((s[1] * 10 + s[2]) * 3600000) + ((s[3] * 10 + s[4]) * 60000)
    + ((s[5] * 10 + s[6]) * 1000) + (s[7] * 100 + s[8] * 10 + s[9])

\* a missing / undefined / empty field (falsy in JavaScript)
NoStamp == << >>
NoId == ""

\* String.prototype.trim on the user ids of the model
Trim(u) == IF u = " " THEN "" ELSE u

(***************************************************************************)
(* The universe of documents.                                              *)
(***************************************************************************)
\* document ids, in the order in which the store lists them
ReminderOrder == << "r1", "r2", "r3", "r4", "r5", "r6", "r7", "r8", "r9", "ra", "rb" >>
ReminderIds == {ReminderOrder[j] : j \in 1..Len(ReminderOrder)}
TokenOrder == << "tokA", "tokB", "tokC", "tokD" >>
UserIds == {"u1", "u2"}

PermanentCodes == {"messaging/invalid-registration-token",
                   "messaging/registration-token-not-registered"}
TransientCodes == {"messaging/server-unavailable"}
Results == {"ok"} \cup PermanentCodes \cup TransientCodes

VARIABLES
  clock,        \* wall clock, ms
  db,           \* Firestore handle available
  messaging,    \* FCM handle available
  started,      \* the listen callback has run startNotificationScheduler
  startupAt,    \* deadline of the setTimeout, or None
  intervalAt,   \* next deadline of the setInterval, or None
  triggers,     \* manual trigger requests received so far
  faults,       \* store and gateway calls that failed so far
  overlap,      \* the environment of this run lets invocations overlap
  reminders,    \* collection 'reminders': id -> document
  items,        \* collection 'items': id -> document
  tokens,       \* fcm_tokens/{userId}/tokens: user -> set of token documents
  pendingDel,   \* token deletions requested and not yet settled
  cyc,          \* the invocations of checkAndSendNotifications
  gateway,      \* the push gateway's answer for each token
  lastSend,     \* history: reminder -> time of its last multicast send
  shortGap,     \* history: reminders sent twice within the debounce window
  answer        \* the response to the last manual trigger that was answered

vars == << clock, db, messaging, started, startupAt, intervalAt, triggers,
           faults, overlap, reminders, items, tokens, pendingDel, cyc, gateway, lastSend,
           shortGap, answer >>

store == << reminders, items, tokens >>
timers == << started, startupAt, intervalAt >>

(***************************************************************************)
(* Store queries.                                                          *)
(***************************************************************************)
Exists(coll, id) == id \in DOMAIN coll

Remove(coll, id) == [x \in (DOMAIN coll) \ {id} |-> coll[x]]

\* the ids of `ids`, in the order of `order`
InOrder(order, ids) == SelectSeq(order, LAMBDA x : x \in ids)

\* db.collection('reminders').where('dueDate', '<=', threshold).get():
\* the documents come back ordered by dueDate, then by document id
RECURSIVE SortByDue(_, _)
SortByDue(rems, ids) ==
  IF ids = {} THEN << >>
  ELSE LET ordered == InOrder(ReminderOrder, ids)
           IsMin(x) == \A y \in ids : ~StrLess(rems[y].dueDate, rems[x].dueDate)
           first == SelectSeq(ordered, IsMin)[1]
       IN  << first >> \o SortByDue(rems, ids \ {first})

DueQueryNoHorizon(rems, threshold) == SortByDue(rems, DOMAIN rems)

DueQuery(rems, threshold) ==
  SortByDue(rems, {r \in DOMAIN rems : StrLeq(rems[r].dueDate, threshold)})

SiblingQueryAnyItem(rems, itemId) ==
  LET all == InOrder(ReminderOrder, DOMAIN rems)
  IN  IF Len(all) > SiblingLimit THEN SubSeq(all, 1, SiblingLimit) ELSE all

\* db.collection('reminders').where('itemId', '==', itemId).limit(10).get()
SiblingQuery(rems, itemId) ==
  LET all == InOrder(ReminderOrder, {r \in DOMAIN rems : rems[r].itemId = itemId})
  IN  IF Len(all) > SiblingLimit THEN SubSeq(all, 1, SiblingLimit) ELSE all

\* the filter of lines 1068-1071
HasUserId(doc) == doc.userId # NoId /\ Trim(doc.userId) # ""

StatusAny(doc) == TRUE

\* the filter of lines 997-1008
StatusOk(doc) == ~(doc.status # "upcoming" /\ doc.status # "overdue")

SentRecentlyInverted(doc, fiveMinutesAgo) ==
  doc.lastNotificationSent # NoStamp
    /\ StrLess(doc.lastNotificationSent, fiveMinutesAgo)

SentRecentlyOneShot(doc, fiveMinutesAgo) == doc.lastNotificationSent # NoStamp

SentRecently(doc, fiveMinutesAgo) ==
  doc.lastNotificationSent # NoStamp
    /\ StrLess(fiveMinutesAgo, doc.lastNotificationSent)

Eligible(doc, fiveMinutesAgo) ==
  IF ~StatusOk(doc) THEN FALSE
  ELSE IF SentRecently(doc, fiveMinutesAgo) THEN FALSE
  ELSE TRUE

\* new Date(now.getTime() - 5 * 60 * 1000).toISOString()
FiveMinutesAgo(now) == toISOString(now - DebounceMs)

OneHourFromNow(now) == toISOString(now + LookaheadMs)

SnapshotWithoutOwner(rems, id) == [id |-> id, userId |-> NoId, itemId |-> rems[id].itemId]

\* { id: doc.id, ...doc.data() }, the fields the cycle reads later
Snapshot(rems, id) == [id |-> id, userId |-> rems[id].userId, itemId |-> rems[id].itemId]

Selected(rems, now) ==
  LET due  == DueQuery(rems, OneHourFromNow(now))
      kept == SelectSeq(due, LAMBDA r : Eligible(rems[r], FiveMinutesAgo(now)))
  IN  [j \in 1..Len(kept) |-> Snapshot(rems, kept[j])]

(***************************************************************************)
(* One invocation of checkAndSendNotifications: its local variables and    *)
(* the await it is suspended at (pc).                                      *)
(***************************************************************************)
NoAnswer == [outcome |-> "none", status |-> 0, success |-> FALSE]

IdleCycle ==
  [ pc |-> "idle", src |-> "none", now |-> None, docs |-> << >>, i |-> 0,
    userId |-> NoId, byUser |-> << >>, g |-> 0, toks |-> << >>, k |-> 0,
    resp |-> << >>, stamp |-> NoStamp, sentCount |-> 0, failedCount |-> 0,
    outcome |-> "none", attempted |-> {}, threw |-> {}, fetched |-> {},
    served |-> {}, perm |-> {} ]

AddToGroupByStoredField(byUser, u, rid) ==
  LET key == IF rid \in DOMAIN reminders THEN reminders[rid].userId ELSE NoId
  IN  IF \E j \in 1..Len(byUser) : byUser[j].user = key
      THEN [j \in 1..Len(byUser) |->
              IF byUser[j].user = key
              THEN [byUser[j] EXCEPT !.rems = Append(@, rid)]
              ELSE byUser[j]]
      ELSE Append(byUser, [user |-> key, rems |-> << rid >>])

\* remindersByUser[userId].push(reminder): Object.entries lists the users in
\* the order in which their first reminder was added
AddToGroup(byUser, u, rid) ==
  IF \E j \in 1..Len(byUser) : byUser[j].user = u
  THEN [j \in 1..Len(byUser) |->
          IF byUser[j].user = u
          THEN [byUser[j] EXCEPT !.rems = Append(@, rid)]
          ELSE byUser[j]]
  ELSE Append(byUser, [user |-> u, rems |-> << rid >>])

Finish(st, how) == [st EXCEPT !.pc = "done", !.outcome = how]

\* lines 1118-1122: the for loop over the user groups, from group g on
EnterGroup(st, g) ==
  IF g > Len(st.byUser) THEN Finish(st, "completed")
  ELSE [st EXCEPT !.pc = "tokens", !.g = g, !.k = 0, !.toks = << >>,
                  !.fetched = @ \cup {st.byUser[g].user}]

EnterReminderDropsPruned(st, k) ==
  IF k > Len(st.byUser[st.g].rems) THEN EnterGroup(st, st.g + 1)
  ELSE [st EXCEPT !.pc = "send", !.k = k, !.resp = << >>, !.stamp = NoStamp,
                  !.toks = SelectSeq(@, LAMBDA t : << st.byUser[st.g].user, t >> \notin st.perm),
                  !.attempted = @ \cup {st.byUser[st.g].rems[k]}]

EnterReminderStopsEarly(st, k) ==
  IF k >= Len(st.byUser[st.g].rems) THEN EnterGroup(st, st.g + 1)
  ELSE [st EXCEPT !.pc = "send", !.k = k, !.resp = << >>, !.stamp = NoStamp,
                  !.attempted = @ \cup {st.byUser[st.g].rems[k]}]

\* lines 1133-1150: the for loop over the reminders of group g, from k on:
\* the next sendEachForMulticast is issued
EnterReminder(st, k) ==
  IF k > Len(st.byUser[st.g].rems) THEN EnterGroup(st, st.g + 1)
  ELSE [st EXCEPT !.pc = "send", !.k = k, !.resp = << >>, !.stamp = NoStamp,
                  !.attempted = @ \cup {st.byUser[st.g].rems[k]}]

\* lines 1104-1114: the resolved reminder joins its user's group
GroupResolved(st, u) ==
  IF u = NoId THEN [st EXCEPT !.pc = "delOrphan"]
  ELSE [st EXCEPT !.byUser = AddToGroup(@, u, st.docs[st.i].id),
                  !.i = @ + 1, !.userId = NoId]

\* lines 1028-1044: the for loop over the selected reminders, from i on, up to
\* its next store call
RECURSIVE Resolve(_)
ResolveKeepsItemless(st) ==
  IF st.i > Len(st.docs) THEN EnterGroup(st, 1)
  ELSE LET d == st.docs[st.i]
       IN  IF d.userId # NoId THEN Resolve(GroupResolved(st, d.userId))
           ELSE IF d.itemId = NoId THEN Resolve([st EXCEPT !.i = @ + 1, !.userId = NoId])
           ELSE [st EXCEPT !.pc = "getItem"]

Resolve(st) ==
  IF st.i > Len(st.docs) THEN EnterGroup(st, 1)
  ELSE LET d == st.docs[st.i]
       IN  IF d.userId # NoId THEN Resolve(GroupResolved(st, d.userId))
           ELSE IF d.itemId = NoId THEN [st EXCEPT !.pc = "delOrphan"]
           ELSE [st EXCEPT !.pc = "getItem"]

\* `continue` after a deleted orphan
SkipReminder(st) == Resolve([st EXCEPT !.i = @ + 1, !.userId = NoId])

CurrentDoc(st) == st.docs[st.i]
CurrentUser(st) == st.byUser[st.g].user
CurrentReminder(st) == st.byUser[st.g].rems[st.k]

SuccessCount(resp) == Cardinality({j \in 1..Len(resp) : resp[j] = "ok"})
FailureCount(resp) == Len(resp) - SuccessCount(resp)

\* line 1191: new Date().toISOString(), evaluated when the send has returned
NotifiedStampCycleNow(st, t) == toISOString(st.now)

NotifiedStamp(st, t) == toISOString(t)

PrunedDocsAnyError(toks, resp) ==
  {toks[j] : j \in {x \in 1..Len(resp) : resp[x] # "ok"}}

\* lines 1202-1213: the token documents whose deletion is requested
PrunedDocs(toks, resp) ==
  {toks[j] : j \in {x \in 1..Len(resp) : resp[x] # "ok" /\ resp[x] \in PermanentCodes}}

(***************************************************************************)
(* The initial state: the server is listening, Firebase was initialised    *)
(* (or failed to), and the store holds what earlier runs and the CRUD      *)
(* endpoints left in it.  Reminders written by POST /api/items carry a     *)
(* userId; legacy reminders and items may lack it.                         *)
(***************************************************************************)
Doc(u, item, status, due, stamp) ==
  [ userId |-> u, itemId |-> item, status |-> status, dueDate |-> toISOString(due),
    lastNotificationSent |-> stamp, itemName |-> "milk", category |-> "recyclable" ]

\* due before the first cycle / first within the lookahead of the interval tick
DueNow == BootTime
DueLater == BootTime + IntervalMs + LookaheadMs

\* a stamp left by a cycle of an earlier run, 4 minutes 50 seconds before boot
StampedBefore == toISOString(StartupDelayMs)

Live == "ok"
Invalid == "messaging/invalid-registration-token"
Gone == "messaging/registration-token-not-registered"
Busy == "messaging/server-unavailable"

\* the gateway answers the same for a token throughout a run
Gateway == [tokA |-> Live, tokB |-> Busy, tokC |-> Gone, tokD |-> Invalid]

\* Stores of the runs in which invocations overlap: one eligible reminder
\* of user u1 (possibly a legacy record without userId, or one notified by
\* an earlier run), one completed.
OverlapStores ==
  { [ reminders |-> [r1 |-> Doc(o1.userId, "i1", "upcoming", DueNow, o1.stamp),
                     r2 |-> Doc("u1", "i1", "completed", DueNow, NoStamp)],
      items     |-> [i1 |-> [userId |-> "u1"]],
      tokens    |-> [u1 |-> {"tokA", "tokC"}, u2 |-> {}] ] :
      o1 \in { [userId |-> "u1", stamp |-> NoStamp],
               [userId |-> NoId, stamp |-> NoStamp],
               [userId |-> "u1", stamp |-> StampedBefore] } }

\* Stores of the runs in which one invocation ends before the next starts.
\* r1 and r2 belong to item i1 of user u1, r3 to another item; r1 and r3 may
\* be legacy records without userId.
FirstPair ==
  { [r1 |-> Doc("u1", "i1", "upcoming", DueNow, NoStamp), i1 |-> "u1"],
    [r1 |-> Doc(NoId, "i1", "upcoming", DueNow, NoStamp), i1 |-> "u1"],
    [r1 |-> Doc(NoId, "i1", "upcoming", DueNow, NoStamp), i1 |-> NoId] }

Second ==
  { Doc("u1", "i1", "overdue", DueNow, NoStamp),
    Doc("u1", "i1", "completed", DueNow, NoStamp),
    Doc("u1", "i1", "overdue", DueNow, StampedBefore) }

ThirdPair ==
  { [r3 |-> Doc("u2", "i2", "upcoming", DueNow, NoStamp), i2 |-> "u2"],
    [r3 |-> Doc("u2", "i2", "upcoming", DueLater, NoStamp), i2 |-> "u2"],
    [r3 |-> Doc(NoId, NoId, "upcoming", DueNow, NoStamp), i2 |-> "u2"],
    [r3 |-> Doc(NoId, "i2", "overdue", DueNow, NoStamp), i2 |-> "u2"],
    [r3 |-> Doc(NoId, "i2", "overdue", DueNow, NoStamp), i2 |-> NoId],
    [r3 |-> Doc(NoId, "i3", "upcoming", DueNow, NoStamp), i2 |-> "u2"] }

SerialStores ==
  { [ reminders |-> [r1 |-> a.r1, r2 |-> b, r3 |-> d.r3],
      items     |-> [i1 |-> [userId |-> a.i1], i2 |-> [userId |-> d.i2]],
      tokens    |-> [u1 |-> {"tokA", "tokB", "tokC"}, u2 |-> {"tokD"}] ] :
      a \in FirstPair, b \in Second, d \in ThirdPair }

\* Stores with many legacy reminders of one Item that has no userId: r1 is
\* due, the others are completed; the first `legacy` of them carry no
\* userId and the next one carries u1.
CrowdedStores ==
  { [ reminders |->
        [r \in {ReminderOrder[j] : j \in 1..(legacy + 1)} |->
           IF r = "r1" THEN Doc(NoId, "i1", "upcoming", DueNow, NoStamp)
           ELSE IF r = ReminderOrder[legacy + 1]
                THEN Doc("u1", "i1", "completed", DueNow, NoStamp)
                ELSE Doc(NoId, "i1", "completed", DueNow, NoStamp)],
      items     |-> [i1 |-> [userId |-> NoId]],
      tokens    |-> [u1 |-> {"tokA"}, u2 |-> {}] ] :
      legacy \in {SiblingLimit - 1, SiblingLimit} }

\* One legacy reminder without userId, due in ten minutes, of an Item that
\* carries its owner; the owner has one device.  And: a reminder of a user
\* without devices, listed before a reminder of a user with one device.
\* And: a legacy reminder whose Item is gone, listed before an owned one.
DueSoon == BootTime + 10 * 60 * 1000

ScenarioStores ==
  { [ reminders |-> [r1 |-> Doc(NoId, "i1", "upcoming", DueSoon, NoStamp)],
      items     |-> [i1 |-> [userId |-> "u1"]],
      tokens    |-> [u1 |-> {"tokA"}, u2 |-> {"tokD"}] ],
    [ reminders |-> [r1 |-> Doc("u2", "i2", "upcoming", DueNow, NoStamp),
                     r2 |-> Doc("u1", "i1", "overdue", DueNow, NoStamp)],
      items     |-> [i1 |-> [userId |-> "u1"], i2 |-> [userId |-> "u2"]],
      tokens    |-> [u1 |-> {"tokA"}, u2 |-> {}] ],
    [ reminders |-> [r1 |-> Doc(NoId, "i3", "upcoming", DueNow, NoStamp),
                     r2 |-> Doc("u1", "i1", "overdue", DueNow, NoStamp)],
      items     |-> [i1 |-> [userId |-> "u1"]],
      tokens    |-> [u1 |-> {"tokA"}, u2 |-> {}] ] }

InitStore(stores) ==
  \E st \in stores :
    /\ reminders = st.reminders
    /\ items = st.items
    /\ tokens = st.tokens

Init ==
  /\ clock = BootTime
  /\ db \in BOOLEAN
  /\ messaging \in BOOLEAN
  /\ (messaging => db)
  /\ started = FALSE
  /\ startupAt = None
  /\ intervalAt = None
  /\ triggers = 0
  /\ faults = 0
  /\ \/ overlap = TRUE /\ InitStore(OverlapStores)
     \/ overlap = FALSE /\ InitStore(SerialStores \cup CrowdedStores \cup ScenarioStores)
  /\ gateway = Gateway
  /\ answer = NoAnswer
  /\ pendingDel = {}
  /\ cyc = [c \in Slots |-> IdleCycle]
  /\ lastSend = [r \in ReminderIds |-> None]
  /\ shortGap = {}

(***************************************************************************)
(* Scheduler and manual trigger.                                           *)
(***************************************************************************)
\* what every step of an invocation records
CycleStep(c, st) ==
  /\ cyc' = [cyc EXCEPT ![c] = st]
  /\ IF st.pc = "send"
     THEN LET r == CurrentReminder(st)
          IN  /\ lastSend' = [lastSend EXCEPT ![r] = clock]
              /\ shortGap' = IF lastSend[r] # None /\ clock - lastSend[r] < DebounceMs
                             THEN shortGap \cup {r} ELSE shortGap
     ELSE UNCHANGED << lastSend, shortGap >>

InvokeUnguarded(c, src) ==
  /\ cyc[c].pc = "idle"
  /\ \A o \in Slots : o < c => cyc[o].pc # "idle"
  /\ overlap \/ \A o \in Slots : cyc[o].pc = "idle"
  /\ CycleStep(c, [IdleCycle EXCEPT !.src = src, !.pc = "query", !.now = clock])

\* lines 973-991: the guard, `now`, and the due query is issued
Invoke(c, src) ==
  /\ cyc[c].pc = "idle"
  /\ \A o \in Slots : o < c => cyc[o].pc # "idle"
  /\ overlap \/ \A o \in Slots : cyc[o].pc = "idle"
  /\ CycleStep(c, IF ~db \/ ~messaging
                  THEN Finish([IdleCycle EXCEPT !.src = src], "skipped")
                  ELSE [IdleCycle EXCEPT !.src = src, !.pc = "query", !.now = clock])

\* lines 1238-1256
StartNotificationScheduler ==
  /\ ~started
  /\ started' = TRUE
  /\ IF ~db \/ ~messaging
     THEN UNCHANGED << startupAt, intervalAt >>
     ELSE /\ startupAt' = clock + StartupDelayMs
          /\ intervalAt' = clock + IntervalMs
  /\ UNCHANGED << clock, db, messaging, overlap, answer, triggers, faults, store, pendingDel,
                  cyc, gateway, lastSend, shortGap >>

Deadlines == {startupAt, intervalAt} \ {None}

\* time passes, up to the next timer deadline; a timer callback runs as soon
\* as its deadline is reached
Tick ==
  /\ overlap \/ \A o \in Slots : cyc[o].pc = "idle"
  /\ \E t \in Deadlines :
       /\ t > clock
       /\ t - BootTime <= MaxUptime
       /\ \A o \in Deadlines : t <= o
       /\ clock' = t
  /\ UNCHANGED << db, messaging, overlap, answer, timers, triggers, faults, store, pendingDel,
                  cyc, gateway, lastSend, shortGap >>

\* lines 1245-1248
StartupTimerFires(c) ==
  /\ startupAt # None
  /\ clock >= startupAt
  /\ startupAt' = None
  /\ Invoke(c, "timer")
  /\ UNCHANGED << clock, db, messaging, overlap, answer, started, intervalAt, triggers, faults, store,
                  pendingDel, gateway >>

IntervalTimerFiresOnce(c) ==
  /\ intervalAt # None
  /\ clock >= intervalAt
  /\ intervalAt' = None
  /\ Invoke(c, "timer")
  /\ UNCHANGED << clock, db, messaging, overlap, answer, started, startupAt, triggers, faults, store,
                  pendingDel, gateway >>

\* lines 1251-1253
IntervalTimerFires(c) ==
  /\ intervalAt # None
  /\ clock >= intervalAt
  /\ intervalAt' = intervalAt + IntervalMs
  /\ Invoke(c, "timer")
  /\ UNCHANGED << clock, db, messaging, overlap, answer, started, startupAt, triggers, faults, store,
                  pendingDel, gateway >>

\* lines 400-403: POST /api/notifications/trigger
ManualTrigger(c) ==
  /\ started
  /\ triggers < MaxTriggers
  /\ triggers' = triggers + 1
  /\ Invoke(c, "manual")
  /\ UNCHANGED << clock, db, messaging, overlap, answer, timers, faults, store, pendingDel, gateway >>

SettlementRethrows(outcome) ==
  IF outcome = "aborted" THEN "rejected" ELSE "fulfilled"

\* how the promise of an invocation settles: the early return of line 976,
\* the end of the try block, and the catch block of lines 1230-1233, which
\* logs and does not rethrow, all fulfil it
Settlement(outcome) == "fulfilled"

\* lines 401-408: the trigger handler's response, with what the invocation
\* it awaited had done
TriggerAnswer(outcome, settlement) ==
  IF settlement = "fulfilled"
  THEN [outcome |-> outcome, status |-> 200, success |-> TRUE]
  ELSE [outcome |-> outcome, status |-> 500, success |-> FALSE]

\* the promise of the invocation settles: the timer callback ends, or the
\* trigger handler answers (lines 404)
CycleReturns(c) ==
  /\ cyc[c].pc = "done"
  /\ cyc' = [cyc EXCEPT ![c] = IdleCycle]
  /\ answer' = IF cyc[c].src = "manual"
               THEN TriggerAnswer(cyc[c].outcome, Settlement(cyc[c].outcome))
               ELSE answer
  /\ UNCHANGED << clock, db, messaging, overlap, timers, triggers, faults, store,
                  pendingDel, gateway, lastSend, shortGap >>

(***************************************************************************)
(* The cycle, one action per await.                                        *)
(***************************************************************************)
Quiet == UNCHANGED << clock, db, messaging, overlap, answer, timers, triggers, faults >>

\* a call fails
Fault ==
  /\ faults < MaxFaults
  /\ faults' = faults + 1
  /\ UNCHANGED << clock, db, messaging, overlap, answer, timers, triggers >>

\* lines 989-1021: the due query returns; filter; first reminder
QueryReturns(c) ==
  /\ cyc[c].pc = "query"
  /\ \E docs \in {Selected(reminders, cyc[c].now)} :
       \E st \in {IF docs = << >> THEN Finish(cyc[c], "empty")
                  ELSE Resolve([cyc[c] EXCEPT !.docs = docs, !.i = 1])} :
         CycleStep(c, st)
  /\ Quiet
  /\ UNCHANGED << store, pendingDel, gateway >>

DeleteOrphanReturnsEndsCycle(c) ==
  /\ cyc[c].pc = "delOrphan"
  /\ \/ /\ reminders' = IF Exists(reminders, CurrentDoc(cyc[c]).id)
                         THEN Remove(reminders, CurrentDoc(cyc[c]).id)
                         ELSE reminders
        /\ Quiet
     \/ /\ UNCHANGED reminders
        /\ Fault
  /\ CycleStep(c, Finish(cyc[c], "completed"))
  /\ UNCHANGED << items, tokens, pendingDel, gateway >>

\* lines 1040, 1048, 1092, 1107: delete().catch(console.error) settles; a
\* rejection is swallowed, the loop continues either way
DeleteOrphanReturns(c) ==
  /\ cyc[c].pc = "delOrphan"
  /\ \/ /\ reminders' = IF Exists(reminders, CurrentDoc(cyc[c]).id)
                         THEN Remove(reminders, CurrentDoc(cyc[c]).id)
                         ELSE reminders
        /\ Quiet
     \/ /\ UNCHANGED reminders
        /\ Fault
  /\ CycleStep(c, SkipReminder(cyc[c]))
  /\ UNCHANGED << items, tokens, pendingDel, gateway >>

GetItemReturnsNoSiblingLookup(c) ==
  /\ cyc[c].pc = "getItem"
  /\ LET st     == cyc[c]
         itemId == CurrentDoc(st).itemId
     IN  CycleStep(c,
           IF ~Exists(items, itemId) THEN [st EXCEPT !.pc = "delOrphan"]
           ELSE IF items[itemId].userId = NoId THEN [st EXCEPT !.pc = "delOrphan"]
           ELSE [st EXCEPT !.pc = "backfill", !.userId = items[itemId].userId])
  /\ Quiet
  /\ UNCHANGED << store, pendingDel, gateway >>

\* lines 1044-1064, 1095-1100: the item fetch returns
GetItemReturns(c) ==
  /\ cyc[c].pc = "getItem"
  /\ LET st     == cyc[c]
         itemId == CurrentDoc(st).itemId
     IN  CycleStep(c,
           IF ~Exists(items, itemId) THEN [st EXCEPT !.pc = "delOrphan"]
           ELSE IF items[itemId].userId = NoId THEN [st EXCEPT !.pc = "siblings"]
           ELSE [st EXCEPT !.pc = "backfill", !.userId = items[itemId].userId])
  /\ Quiet
  /\ UNCHANGED << store, pendingDel, gateway >>

SiblingQueryReturnsRetries(c) ==
  /\ cyc[c].pc = "siblings"
  /\ LET st    == cyc[c]
         other == SelectSeq(SiblingQuery(reminders, CurrentDoc(st).itemId),
                            LAMBDA r : HasUserId(reminders[r]))
     IN  CycleStep(c,
           IF Len(other) > 0
           THEN [st EXCEPT !.pc = "backfillBoth", !.userId = reminders[other[1]].userId]
           ELSE [st EXCEPT !.pc = "getItem"])
  /\ Quiet
  /\ UNCHANGED << store, pendingDel, gateway >>

\* lines 1061-1094: the sibling query returns
SiblingQueryReturns(c) ==
  /\ cyc[c].pc = "siblings"
  /\ LET st    == cyc[c]
         other == SelectSeq(SiblingQuery(reminders, CurrentDoc(st).itemId),
                            LAMBDA r : HasUserId(reminders[r]))
     IN  CycleStep(c,
           IF Len(other) > 0
           THEN [st EXCEPT !.pc = "backfillBoth", !.userId = reminders[other[1]].userId]
           ELSE [st EXCEPT !.pc = "delOrphan"])
  /\ Quiet
  /\ UNCHANGED << store, pendingDel, gateway >>

BackfillReturnsNoWrite(c) ==
  /\ cyc[c].pc = "backfill"
  /\ Exists(reminders, CurrentDoc(cyc[c]).id)
  /\ UNCHANGED reminders
  /\ CycleStep(c, Resolve(GroupResolved(cyc[c], cyc[c].userId)))
  /\ Quiet
  /\ UNCHANGED << items, tokens, pendingDel, gateway >>

\* lines 1098-1114: the backfill of the reminder returns
BackfillReturns(c) ==
  /\ cyc[c].pc = "backfill"
  /\ Exists(reminders, CurrentDoc(cyc[c]).id)
  /\ reminders' = [reminders EXCEPT ![CurrentDoc(cyc[c]).id].userId = cyc[c].userId]
  /\ CycleStep(c, Resolve(GroupResolved(cyc[c], cyc[c].userId)))
  /\ Quiet
  /\ UNCHANGED << items, tokens, pendingDel, gateway >>

BackfillBothReturnsReminderOnly(c) ==
  /\ cyc[c].pc = "backfillBoth"
  /\ Exists(reminders, CurrentDoc(cyc[c]).id)
  /\ Exists(items, CurrentDoc(cyc[c]).itemId)
  /\ reminders' = [reminders EXCEPT ![CurrentDoc(cyc[c]).id].userId = cyc[c].userId]
  /\ UNCHANGED items
  /\ CycleStep(c, Resolve(GroupResolved(cyc[c], cyc[c].userId)))
  /\ Quiet
  /\ UNCHANGED << tokens, pendingDel, gateway >>

\* lines 1084-1088, 1104-1114: both updates of Promise.all succeeded
BackfillBothReturns(c) ==
  /\ cyc[c].pc = "backfillBoth"
  /\ Exists(reminders, CurrentDoc(cyc[c]).id)
  /\ Exists(items, CurrentDoc(cyc[c]).itemId)
  /\ reminders' = [reminders EXCEPT ![CurrentDoc(cyc[c]).id].userId = cyc[c].userId]
  /\ items' = [items EXCEPT ![CurrentDoc(cyc[c]).itemId].userId = cyc[c].userId]
  /\ CycleStep(c, Resolve(GroupResolved(cyc[c], cyc[c].userId)))
  /\ Quiet
  /\ UNCHANGED << tokens, pendingDel, gateway >>

\* update() rejects with NOT_FOUND when its document does not exist
UpdateTargetGone(st) ==
  \/ st.pc \in {"backfill", "backfillBoth"} /\ ~Exists(reminders, CurrentDoc(st).id)
  \/ st.pc = "backfillBoth" /\ ~Exists(items, CurrentDoc(st).itemId)
  \/ st.pc = "mark" /\ ~Exists(reminders, CurrentReminder(st))

\* lines 1230-1233: a store call of the scan or of owner resolution rejects
\* (update() also rejects when its document is gone); the outer catch ends
\* the cycle.  Of the two updates of Promise.all, one may have been applied.
ResolveThrows(c) ==
  /\ cyc[c].pc \in {"query", "getItem", "siblings", "backfill", "backfillBoth"}
  /\ \E applied \in {"none", "item", "reminder"} :
       /\ applied # "none" => cyc[c].pc = "backfillBoth"
       /\ reminders' =
            IF applied = "reminder" /\ Exists(reminders, CurrentDoc(cyc[c]).id)
            THEN [reminders EXCEPT ![CurrentDoc(cyc[c]).id].userId = cyc[c].userId]
            ELSE reminders
       /\ items' =
            IF applied = "item" /\ Exists(items, CurrentDoc(cyc[c]).itemId)
            THEN [items EXCEPT ![CurrentDoc(cyc[c]).itemId].userId = cyc[c].userId]
            ELSE items
  /\ CycleStep(c, Finish(cyc[c], "aborted"))
  /\ IF UpdateTargetGone(cyc[c]) THEN Quiet ELSE Fault
  /\ UNCHANGED << tokens, pendingDel, gateway >>

TokensReturnsStopsAtEmpty(c) ==
  /\ cyc[c].pc = "tokens"
  /\ LET st   == cyc[c]
         toks == InOrder(TokenOrder, tokens[CurrentUser(st)])
     IN  CycleStep(c, IF toks = << >> THEN Finish(st, "completed")
                      ELSE EnterReminder([st EXCEPT !.toks = toks,
                                                    !.served = @ \cup {CurrentUser(st)}],
                                         1))
  /\ Quiet
  /\ UNCHANGED << store, pendingDel, gateway >>

\* lines 1122-1133: the token fetch returns
TokensReturns(c) ==
  /\ cyc[c].pc = "tokens"
  /\ LET st   == cyc[c]
         toks == InOrder(TokenOrder, tokens[CurrentUser(st)])
     IN  CycleStep(c, IF toks = << >> THEN EnterGroup(st, st.g + 1)
                      ELSE EnterReminder([st EXCEPT !.toks = toks,
                                                    !.served = @ \cup {CurrentUser(st)}],
                                         1))
  /\ Quiet
  /\ UNCHANGED << store, pendingDel, gateway >>

\* lines 1220-1222: the token fetch rejects; the next group is processed
TokensThrows(c) ==
  /\ cyc[c].pc = "tokens"
  /\ CycleStep(c, EnterGroup(cyc[c], cyc[c].g + 1))
  /\ Fault
  /\ UNCHANGED << store, pendingDel, gateway >>

\* lines 1150-1192: sendEachForMulticast returns one result per token; the
\* update of lastNotificationSent is issued with the time of this moment
SendReturns(c) ==
  /\ cyc[c].pc = "send"
  /\ LET resp == [j \in 1..Len(cyc[c].toks) |-> gateway[cyc[c].toks[j]]]
     IN  CycleStep(c, [cyc[c] EXCEPT !.pc = "mark", !.resp = resp,
                         !.stamp = NotifiedStamp(cyc[c], clock),
                         !.perm = @ \cup {<< CurrentUser(cyc[c]), t >> :
                                            t \in PrunedDocs(cyc[c].toks, resp)}])
  /\ Quiet
  /\ UNCHANGED << store, pendingDel, gateway >>

SendThrowsLeavesGroup(c) ==
  /\ cyc[c].pc = "send"
  /\ CycleStep(c, EnterGroup([cyc[c] EXCEPT !.failedCount = @ + 1,
                                !.threw = @ \cup {CurrentReminder(cyc[c])}],
                            cyc[c].g + 1))
  /\ Fault
  /\ UNCHANGED << store, pendingDel, gateway >>

\* lines 1215-1218: sendEachForMulticast rejects
SendThrows(c) ==
  /\ cyc[c].pc = "send"
  /\ CycleStep(c, EnterReminder([cyc[c] EXCEPT !.failedCount = @ + 1,
                                   !.threw = @ \cup {CurrentReminder(cyc[c])}],
                                cyc[c].k + 1))
  /\ Fault
  /\ UNCHANGED << store, pendingDel, gateway >>

MarkReturnsOnlyOnSuccess(c) ==
  /\ cyc[c].pc = "mark"
  /\ Exists(reminders, CurrentReminder(cyc[c]))
  /\ LET st == cyc[c]
         r  == CurrentReminder(st)
     IN  /\ reminders' = IF SuccessCount(st.resp) > 0
                         THEN [reminders EXCEPT ![r].lastNotificationSent = st.stamp]
                         ELSE reminders
         /\ pendingDel' = IF FailureCount(st.resp) > 0
                          THEN pendingDel \cup
                                 {<< CurrentUser(st), t >> : t \in PrunedDocs(st.toks, st.resp)}
                          ELSE pendingDel
         /\ CycleStep(c, EnterReminder(
                           [st EXCEPT !.sentCount = @ + SuccessCount(st.resp),
                                      !.failedCount = @ + FailureCount(st.resp)],
                           st.k + 1))
  /\ Quiet
  /\ UNCHANGED << items, tokens, gateway >>

MarkReturnsCompletes(c) ==
  /\ cyc[c].pc = "mark"
  /\ Exists(reminders, CurrentReminder(cyc[c]))
  /\ LET st == cyc[c]
         r  == CurrentReminder(st)
     IN  /\ reminders' = [reminders EXCEPT ![r].lastNotificationSent = st.stamp,
                                           ![r].status = "completed"]
         /\ pendingDel' = IF FailureCount(st.resp) > 0
                          THEN pendingDel \cup
                                 {<< CurrentUser(st), t >> : t \in PrunedDocs(st.toks, st.resp)}
                          ELSE pendingDel
         /\ CycleStep(c, EnterReminder(
                           [st EXCEPT !.sentCount = @ + SuccessCount(st.resp),
                                      !.failedCount = @ + FailureCount(st.resp)],
                           st.k + 1))
  /\ Quiet
  /\ UNCHANGED << items, tokens, gateway >>

\* lines 1190-1214: the update of lastNotificationSent returns; counts;
\* the deletions of the permanently failed tokens are requested, not awaited
MarkReturns(c) ==
  /\ cyc[c].pc = "mark"
  /\ Exists(reminders, CurrentReminder(cyc[c]))
  /\ LET st == cyc[c]
         r  == CurrentReminder(st)
     IN  /\ reminders' = [reminders EXCEPT ![r].lastNotificationSent = st.stamp]
         /\ pendingDel' = IF FailureCount(st.resp) > 0
                          THEN pendingDel \cup
                                 {<< CurrentUser(st), t >> : t \in PrunedDocs(st.toks, st.resp)}
                          ELSE pendingDel
         /\ CycleStep(c, EnterReminder(
                           [st EXCEPT !.sentCount = @ + SuccessCount(st.resp),
                                      !.failedCount = @ + FailureCount(st.resp)],
                           st.k + 1))
  /\ Quiet
  /\ UNCHANGED << items, tokens, gateway >>

MarkThrowsStillPrunes(c) ==
  /\ cyc[c].pc = "mark"
  /\ pendingDel' = pendingDel \cup
                     {<< CurrentUser(cyc[c]), t >> : t \in PrunedDocs(cyc[c].toks, cyc[c].resp)}
  /\ CycleStep(c, EnterReminder([cyc[c] EXCEPT !.failedCount = @ + 1], cyc[c].k + 1))
  /\ IF UpdateTargetGone(cyc[c]) THEN Quiet ELSE Fault
  /\ UNCHANGED << store, gateway >>

\* lines 1215-1218: the update of lastNotificationSent rejects
MarkThrows(c) ==
  /\ cyc[c].pc = "mark"
  /\ CycleStep(c, EnterReminder([cyc[c] EXCEPT !.failedCount = @ + 1], cyc[c].k + 1))
  /\ IF UpdateTargetGone(cyc[c]) THEN Quiet ELSE Fault
  /\ UNCHANGED << store, pendingDel, gateway >>

\* line 1209: a requested token deletion settles; a rejection is swallowed
TokenDeleteSettles ==
  /\ \E p \in pendingDel :
       /\ pendingDel' = pendingDel \ {p}
       /\ \/ /\ tokens' = [tokens EXCEPT ![p[1]] = @ \ {p[2]}]
             /\ Quiet
          \/ /\ UNCHANGED tokens
             /\ Fault
  /\ UNCHANGED << reminders, items, cyc, gateway, lastSend, shortGap >>

Next ==
  \/ StartNotificationScheduler
  \/ Tick
  \/ TokenDeleteSettles
  \/ \E c \in Slots :
       \/ StartupTimerFires(c)
       \/ IntervalTimerFires(c)
       \/ ManualTrigger(c)
       \/ CycleReturns(c)
       \/ QueryReturns(c)
       \/ DeleteOrphanReturns(c)
       \/ GetItemReturns(c)
       \/ SiblingQueryReturns(c)
       \/ BackfillReturns(c)
       \/ BackfillBothReturns(c)
       \/ ResolveThrows(c)
       \/ TokensReturns(c)
       \/ TokensThrows(c)
       \/ SendReturns(c)
       \/ SendThrows(c)
       \/ MarkReturns(c)
       \/ MarkThrows(c)

Spec == Init /\ [][Next]_vars

\* The event loop runs a callback whose timer is due or whose awaited call
\* has settled: the process does not stop while a step is possible.
LiveSpec == Spec /\ WF_vars(Next)

(***************************************************************************)
(* Properties.                                                             *)
(***************************************************************************)
Running(c) == cyc[c].pc \notin {"idle", "done"}
Ids(docs) == {docs[j].id : j \in 1..Len(docs)}
Members(st, g) == {st.byUser[g].rems[j] : j \in 1..Len(st.byUser[g].rems)}
Stamp(r) == reminders[r].lastNotificationSent

\* the step is the return of cycle c's due query: its selection is made
Selects(c) == cyc[c].pc = "query" /\ cyc'[c].pc # "query" /\ cyc'[c].outcome # "aborted"

\* the step is one of cycle c, and in it c selects r, issues a multicast send
\* for r, or changes or deletes the reminder document r
Touches(c, r) ==
  /\ cyc'[c] # cyc[c]
  /\ \/ Selects(c) /\ r \in Ids(cyc'[c].docs)
     \/ cyc'[c].pc = "send" /\ CurrentReminder(cyc'[c]) = r
     \/ r \notin DOMAIN reminders'
     \/ r \in DOMAIN reminders' /\ reminders'[r] # reminders[r]

\* C1: at most one dispatch cycle is in progress at any time.
C1_OneCycleAtATime == Cardinality({c \in Slots : Running(c)}) <= 1

\* C2: two successive multicast sends for the same reminder are at least
\* the debounce window (5 minutes) apart.
C2_SendsDebounced == shortGap = {}

C4_SendFailureIsolated ==
  \A c \in Slots :
    (cyc[c].pc = "done" /\ cyc[c].threw # {}) =>
      \A g \in 1..Len(cyc[c].byUser) :
        /\ cyc[c].byUser[g].user \in cyc[c].fetched
        /\ (Members(cyc[c], g) \cap cyc[c].threw # {}
              \/ cyc[c].byUser[g].user \in cyc[c].served)
             => Members(cyc[c], g) \subseteq cyc[c].attempted

\* C4 witness: the send of the first of two reminders of a group threw, the
\* second was sent, and so was the reminder of the other user's group.
C4_Witness ==
  \E c \in Slots :
    /\ cyc[c].pc = "done"
    /\ Len(cyc[c].byUser) = 2
    /\ Len(cyc[c].byUser[1].rems) = 2
    /\ cyc[c].threw = {cyc[c].byUser[1].rems[1]}
    /\ cyc[c].byUser[1].rems[2] \in cyc[c].attempted
    /\ Stamp(cyc[c].byUser[1].rems[2]) # NoStamp
    /\ cyc[c].byUser[2].user \in cyc[c].served
    /\ Members(cyc[c], 2) \subseteq cyc[c].attempted

\* C5: a store error raised while resolving the owner of one reminder does
\* not keep the other eligible reminders of the cycle from being dispatched.
C5_CycleRunsToCompletion ==
  \A c \in Slots :
    (cyc[c].pc = "done" /\ cyc[c].outcome = "aborted" /\ cyc[c].i >= 1) =>
      \A j \in 1..Len(cyc[c].docs) :
        ( /\ j # cyc[c].i
          /\ cyc[c].docs[j].userId \in UserIds
          /\ tokens[cyc[c].docs[j].userId] # {} )
        => cyc[c].docs[j].id \in cyc[c].attempted

\* C6: when a cycle has completed, every token the gateway reported
\* permanently invalid during the cycle is absent from the user's tokens.
C6_PermanentTokensPruned ==
  \A c \in Slots :
    cyc[c].pc = "done" => \A p \in cyc[c].perm : p[2] \notin tokens[p[1]]

\* C7: a token whose send succeeded or failed with another code than the two
\* permanent codes is never deleted.
C7_OnlyPermanentTokensDeleted ==
  [][\A u \in UserIds : \A t \in tokens[u] :
       t \notin tokens'[u] => gateway[t] \in PermanentCodes]_vars

\* C7 witness: after a send in which tokB failed transiently and tokC
\* permanently, tokC is deleted and tokA and tokB are still registered.
C7_Witness ==
  \E c \in Slots :
    /\ cyc[c].pc = "done"
    /\ "u1" \in cyc[c].served
    /\ cyc[c].sentCount >= 1
    /\ cyc[c].failedCount >= 2
    /\ tokens["u1"] = {"tokA", "tokB"}
    /\ pendingDel = {}

\* the reminder is within the lookahead; its status is upcoming or overdue;
\* its stamp lies within the 5 minutes before `now`
DueBy(r, now) == DateParse(reminders[r].dueDate) <= now + LookaheadMs
Actionable(r) == reminders[r].status \in {"upcoming", "overdue"}
Debounced(r, now) == Stamp(r) # NoStamp /\ DateParse(Stamp(r)) > now - DebounceMs

\* C8: a cycle leaves out every reminder whose stamp lies within the last
\* 5 minutes of its `now`, and selects every due, upcoming or overdue
\* reminder whose stamp is older, however often it was stamped before.
C8_DebounceIsARecheck ==
  [][\A c \in Slots : Selects(c) =>
       \A r \in DOMAIN reminders :
         (DueBy(r, cyc[c].now) /\ Actionable(r)) =>
           (r \in Ids(cyc'[c].docs) <=> ~Debounced(r, cyc[c].now))]_vars

\* C8 witness: a reminder sent and stamped in this run is selected again by
\* a cycle that starts when the window has elapsed.
C8_Witness ==
  \E c \in Slots : \E r \in DOMAIN reminders :
    /\ lastSend[r] # None
    /\ Stamp(r) # NoStamp
    /\ cyc[c].pc = "tokens"
    /\ r \in Ids(cyc[c].docs)
    /\ cyc[c].now >= DateParse(Stamp(r)) + DebounceMs

\* C9: a cycle never selects, sends, changes or deletes a reminder whose
\* dueDate is later than the cycle's `now` plus one hour.
C9_BeyondLookaheadUntouched ==
  [][\A c \in Slots : \A r \in DOMAIN reminders :
       Touches(c, r) => DueBy(r, cyc[c].now)]_vars

\* C9 witness: a cycle has sent another reminder and completed while a
\* reminder due later than its lookahead stayed as it was.
C9_Witness ==
  \E c \in Slots : \E r \in DOMAIN reminders :
    /\ cyc[c].pc = "done"
    /\ cyc[c].outcome = "completed"
    /\ cyc[c].attempted # {}
    /\ Actionable(r)
    /\ ~DueBy(r, cyc[c].now)
    /\ r \notin cyc[c].attempted
    /\ Stamp(r) = NoStamp

\* C10: a cycle never selects, sends, changes or deletes a reminder whose
\* status is not upcoming or overdue.
C10_CompletedUntouched ==
  [][\A c \in Slots : \A r \in DOMAIN reminders :
       Touches(c, r) => Actionable(r)]_vars

\* C10 witness: a cycle has sent another reminder and completed while a
\* completed reminder that is due stayed as it was.
C10_Witness ==
  \E c \in Slots : \E r \in DOMAIN reminders :
    /\ cyc[c].pc = "done"
    /\ cyc[c].outcome = "completed"
    /\ cyc[c].attempted # {}
    /\ reminders[r].status = "completed"
    /\ DueBy(r, cyc[c].now)
    /\ r \notin cyc[c].attempted
    /\ Stamp(r) = NoStamp

\* the snapshot of reminder r taken by the scan of invocation st, if any
Scanned(st, r) == {j \in 1..Len(st.docs) : st.docs[j].id = r}

\* C11: every group of a cycle is keyed by a non-empty userId, and a token
\* fetch or a multicast send is only ever issued for a non-empty userId.
C11_GroupsHaveOwner ==
  \A c \in Slots :
    /\ \A g \in 1..Len(cyc[c].byUser) :
         /\ cyc[c].byUser[g].user # NoId
         /\ Trim(cyc[c].byUser[g].user) # ""
    /\ NoId \notin cyc[c].fetched
    /\ NoId \notin cyc[c].served
    /\ cyc[c].pc \in {"tokens", "send", "mark"} => CurrentUser(cyc[c]) # NoId

\* C11 witness: a multicast send is in flight for a reminder that was scanned
\* without a userId, under the owner found for it.
C11_Witness ==
  \E c \in Slots :
    /\ cyc[c].pc = "send"
    /\ \E j \in Scanned(cyc[c], CurrentReminder(cyc[c])) : cyc[c].docs[j].userId = NoId
    /\ CurrentUser(cyc[c]) \in UserIds

\* the reminders of the scan of st that have neither a userId nor an itemId
Itemless(st) == {st.docs[j].id : j \in {x \in 1..Len(st.docs) :
                   st.docs[x].userId = NoId /\ st.docs[x].itemId = NoId}}

Grouped(st) == UNION {Members(st, g) : g \in 1..Len(st.byUser)}

\* C12: an eligible reminder without userId and without itemId is deleted by
\* the cycle when its owner resolution handles it (the deletion succeeding),
\* it is in no group and no send of that cycle, and once deleted it is in no
\* later scan: no step brings a deleted reminder back.
C12_ItemlessOrphanDeleted ==
  /\ [](\A c \in Slots :
          /\ Itemless(cyc[c]) \cap (Grouped(cyc[c]) \cup cyc[c].attempted) = {}
          /\ (cyc[c].pc = "done" /\ cyc[c].outcome = "completed" /\ faults = 0)
               => Itemless(cyc[c]) \cap DOMAIN reminders = {})
  /\ [][/\ DOMAIN reminders' \subseteq DOMAIN reminders
        /\ \A c \in Slots :
             /\ ( /\ cyc[c].pc = "delOrphan"
                  /\ cyc'[c] # cyc[c]
                  /\ CurrentDoc(cyc[c]).id \in Itemless(cyc[c])
                  /\ faults' = faults )
                => /\ CurrentDoc(cyc[c]).id \notin DOMAIN reminders'
                   /\ cyc'[c].i = cyc[c].i + 1
             /\ Selects(c) => Ids(cyc'[c].docs) \subseteq DOMAIN reminders]_vars

\* C12 witness: a cycle that scanned a reminder without userId and itemId
\* together with a reminder it sent has completed; the first is gone.
C12_Witness ==
  \E c \in Slots :
    /\ cyc[c].pc = "done"
    /\ cyc[c].outcome = "completed"
    /\ Itemless(cyc[c]) # {}
    /\ Itemless(cyc[c]) \cap DOMAIN reminders = {}
    /\ cyc[c].attempted # {}

\* the reminders of the store that share itemId and carry a non-empty userId
OwnedSiblings(itemId) ==
  {r \in DOMAIN reminders : reminders[r].itemId = itemId /\ HasUserId(reminders[r])}

\* the reminders of the scan of st without userId whose Item exists and has
\* no userId either, while no reminder of that Item carries one
Ownerless(st) ==
  {st.docs[j].id : j \in {x \in 1..Len(st.docs) :
     /\ st.docs[x].userId = NoId
     /\ st.docs[x].itemId # NoId
     /\ Exists(items, st.docs[x].itemId)
     /\ items[st.docs[x].itemId].userId = NoId
     /\ OwnedSiblings(st.docs[x].itemId) = {}}}

\* C13: an eligible reminder without userId whose Item exists without userId,
\* and none of whose siblings carries a userId, is deleted by the cycle when
\* its owner resolution handles it (the deletion succeeding), without any
\* write of a userId, and it is in no group and no send of that cycle.
C13_OwnerlessOrphanDeleted ==
  /\ [](\A c \in Slots :
          /\ Ownerless(cyc[c]) \cap (Grouped(cyc[c]) \cup cyc[c].attempted) = {}
          /\ (cyc[c].pc = "done" /\ cyc[c].outcome = "completed" /\ faults = 0)
               => Ownerless(cyc[c]) \cap DOMAIN reminders = {})
  /\ [][\A c \in Slots :
          /\ ( /\ cyc[c].pc = "siblings"
               /\ cyc'[c] # cyc[c]
               /\ CurrentDoc(cyc[c]).id \in Ownerless(cyc[c])
               /\ faults' = faults )
             => /\ cyc'[c].pc = "delOrphan"
                /\ UNCHANGED << reminders, items >>
          /\ ( /\ cyc[c].pc = "delOrphan"
               /\ cyc'[c] # cyc[c]
               /\ CurrentDoc(cyc[c]).id \in Ownerless(cyc[c])
               /\ faults' = faults )
             => /\ CurrentDoc(cyc[c]).id \notin DOMAIN reminders'
                /\ UNCHANGED items]_vars

\* C13 witness: a cycle that scanned a reminder without userId, of an Item
\* that exists without userId, has sent another reminder and completed; the
\* first is gone and its Item still has no userId.
C13_Witness ==
  \E c \in Slots : \E j \in 1..Len(cyc[c].docs) :
    /\ cyc[c].pc = "done"
    /\ cyc[c].outcome = "completed"
    /\ cyc[c].docs[j].userId = NoId
    /\ cyc[c].docs[j].itemId # NoId
    /\ Exists(items, cyc[c].docs[j].itemId)
    /\ items[cyc[c].docs[j].itemId].userId = NoId
    /\ cyc[c].docs[j].id \notin DOMAIN reminders
    /\ cyc[c].attempted # {}

\* reminder r of the store has no userId and no itemId, or its Item does not
\* exist
NoItem(r) ==
  /\ reminders[r].userId = NoId
  /\ reminders[r].itemId = NoId \/ ~Exists(items, reminders[r].itemId)

\* the step deletes reminder r
Deletes(r) == r \in DOMAIN reminders /\ r \notin DOMAIN reminders'

\* C14 as claimed: a reminder is deleted only if it has no userId and has no
\* itemId, or its Item does not exist, or its Item has no userId and no
\* reminder at all that shares its itemId carries a non-empty userId.
C14_DeletedOnlyIfNoSiblingOwns ==
  [][\A r \in ReminderIds : Deletes(r) =>
       \/ NoItem(r)
       \/ /\ reminders[r].userId = NoId
          /\ items[reminders[r].itemId].userId = NoId
          /\ OwnedSiblings(reminders[r].itemId) = {}]_vars

\* C14 as amended: a reminder is deleted only if it has no userId and has no
\* itemId, or its Item does not exist, or its Item has no userId and none of
\* the at most 10 reminders returned by the sibling query carries a
\* non-empty userId.
C14_DeletedOnlyIfQueryFindsNoOwner ==
  [][\A r \in ReminderIds : Deletes(r) =>
       \/ NoItem(r)
       \/ /\ reminders[r].userId = NoId
          /\ items[reminders[r].itemId].userId = NoId
          /\ \A j \in 1..Len(SiblingQuery(reminders, reminders[r].itemId)) :
               ~HasUserId(reminders[SiblingQuery(reminders, reminders[r].itemId)[j]])]_vars

\* C14 witness: a reminder was deleted although an eleventh reminder of its
\* Item, beyond the limit of the sibling query, carries a userId.
C14_Witness ==
  \E c \in Slots : \E j \in 1..Len(cyc[c].docs) :
    /\ cyc[c].pc = "done"
    /\ cyc[c].docs[j].userId = NoId
    /\ cyc[c].docs[j].itemId # NoId
    /\ cyc[c].docs[j].id \notin DOMAIN reminders
    /\ Exists(items, cyc[c].docs[j].itemId)
    /\ items[cyc[c].docs[j].itemId].userId = NoId
    /\ OwnedSiblings(cyc[c].docs[j].itemId) # {}

\* the stages of the owner resolution of one reminder, in program order
Stage(pc) ==
  CASE pc = "getItem" -> 1
    [] pc = "siblings" -> 2
    [] pc \in {"backfill", "backfillBoth"} -> 3
    [] pc = "delOrphan" -> 4
    [] OTHER -> 5

Resolving(st) == st.pc \in {"getItem", "siblings", "backfill", "backfillBoth", "delOrphan"}

\* the owner that the store contents determine for the scanned reminder d
Orphan == "orphan"
OwnerOf(d) ==
  IF d.userId # NoId THEN d.userId
  ELSE IF d.itemId = NoId THEN Orphan
  ELSE IF ~Exists(items, d.itemId) THEN Orphan
  ELSE IF items[d.itemId].userId # NoId THEN items[d.itemId].userId
  ELSE LET q == SiblingQuery(reminders, d.itemId)
           owned == {j \in 1..Len(q) : HasUserId(reminders[q[j]])}
       IN  IF owned = {} THEN Orphan
           ELSE reminders[q[CHOOSE j \in owned : \A k \in owned : j <= k]].userId

\* C15: every step of the owner resolution of a reminder either leaves that
\* reminder or moves it to a later stage (item fetch, sibling query, write or
\* delete), so there is at most one item fetch and one sibling query per
\* reminder and no loop; the sibling query returns at most 10 documents; and
\* the userId adopted, or the decision to delete, is the one the store
\* contents determine.
C15_ResolutionBoundedAndDeterministic ==
  /\ [](\A r \in DOMAIN reminders :
          Len(SiblingQuery(reminders, reminders[r].itemId)) <= SiblingLimit)
  /\ [][\A c \in Slots : (Resolving(cyc[c]) /\ cyc'[c] # cyc[c]) =>
          /\ \/ cyc'[c].i > cyc[c].i
             \/ cyc'[c].pc = "done"
             \/ cyc'[c].i = cyc[c].i /\ Stage(cyc'[c].pc) > Stage(cyc[c].pc)
          /\ (cyc[c].pc \in {"getItem", "siblings"} /\ faults' = faults) =>
               /\ cyc'[c].i = cyc[c].i
               /\ cyc'[c].pc # "siblings" =>
                    (cyc'[c].pc = "delOrphan" <=> OwnerOf(CurrentDoc(cyc[c])) = Orphan)
               /\ cyc'[c].pc \in {"backfill", "backfillBoth"}
                    => cyc'[c].userId = OwnerOf(CurrentDoc(cyc[c]))
               /\ cyc'[c].pc = "siblings"
                    => items[CurrentDoc(cyc[c]).itemId].userId = NoId
          /\ (cyc[c].pc \in {"backfill", "backfillBoth"} /\ cyc'[c].pc # "done") =>
               \E g \in 1..Len(cyc'[c].byUser) :
                 /\ cyc'[c].byUser[g].user = cyc[c].userId
                 /\ CurrentDoc(cyc[c]).id \in Members(cyc'[c], g)]_vars

\* C15 witness: the owner of a reminder was found by the sibling query, after
\* the fetch of its Item, among ten reminders of that Item.
C15_Witness ==
  \E c \in Slots :
    /\ cyc[c].pc = "backfillBoth"
    /\ cyc[c].userId \in UserIds
    /\ Len(SiblingQuery(reminders, CurrentDoc(cyc[c]).itemId)) = SiblingLimit

Range(seq) == {seq[j] : j \in 1..Len(seq)}

\* every token registered for user u is one the gateway accepts
AllLive(u) == tokens[u] # {} /\ \A t \in tokens[u] : gateway[t] = Live

\* the reminders of the scan of st without userId whose Item carries the
\* userId of a user with registered tokens, all accepted by the gateway,
\* none of which this cycle saw fail permanently
OwnedByItem(st) ==
  {j \in 1..Len(st.docs) :
     /\ st.docs[j].userId = NoId
     /\ st.docs[j].itemId # NoId
     /\ Exists(items, st.docs[j].itemId)
     /\ items[st.docs[j].itemId].userId \in UserIds
     /\ AllLive(items[st.docs[j].itemId].userId)
     /\ \A p \in st.perm : p[1] # items[st.docs[j].itemId].userId}

\* C16: a cycle in which no call fails, and that scans a reminder without
\* userId whose Item carries userId u, u having registered tokens that the
\* gateway all accepts, ends with the reminder's userId set to u, a multicast
\* send issued for it, and its lastNotificationSent set to a time not before
\* the cycle's `now`; every multicast of a group is addressed to exactly the
\* tokens registered for the group's user, and a user's tokens that the
\* gateway all accepts stay in the store.
C16_LegacyReminderDispatched ==
  /\ [](\A c \in Slots :
          (cyc[c].pc = "done" /\ cyc[c].outcome = "completed" /\ faults = 0) =>
            \A j \in OwnedByItem(cyc[c]) :
              LET r == cyc[c].docs[j].id
              IN  /\ r \in DOMAIN reminders
                  /\ reminders[r].userId = items[cyc[c].docs[j].itemId].userId
                  /\ r \in cyc[c].attempted
                  /\ r \notin cyc[c].threw
                  /\ Stamp(r) # NoStamp
                  /\ DateParse(Stamp(r)) >= cyc[c].now)
  /\ [][/\ \A u \in UserIds : AllLive(u) => tokens'[u] = tokens[u]
        /\ \A c \in Slots :
             /\ (cyc[c].pc = "tokens" /\ cyc'[c].pc = "send" /\ cyc'[c].g = cyc[c].g)
                  => /\ Range(cyc'[c].toks) = tokens[CurrentUser(cyc[c])]
                     /\ Len(cyc'[c].toks) = Cardinality(tokens[CurrentUser(cyc[c])])
                     /\ \A u \in UserIds \ {CurrentUser(cyc[c])} :
                          Range(cyc'[c].toks) \cap tokens[u] = {}
             /\ ( /\ cyc[c].pc \in {"send", "mark"}
                  /\ cyc'[c].pc \in {"send", "mark"}
                  /\ cyc'[c].g = cyc[c].g )
                  => cyc'[c].toks = cyc[c].toks]_vars

\* C16 witness: the cycle has backfilled r1 with the userId of its Item,
\* sent it to the one token of u1 with success, stamped it, and tokA is
\* still registered.
C16_Witness ==
  \E c \in Slots :
    /\ cyc[c].pc = "done"
    /\ cyc[c].outcome = "completed"
    /\ faults = 0
    /\ OwnedByItem(cyc[c]) # {}
    /\ cyc[c].docs[1].id = "r1"
    /\ cyc[c].docs[1].userId = NoId
    /\ reminders["r1"].userId = "u1"
    /\ cyc[c].attempted = {"r1"}
    /\ cyc[c].sentCount = 1
    /\ cyc[c].failedCount = 0
    /\ Stamp("r1") # NoStamp
    /\ tokens["u1"] = {"tokA"}

\* the store or the gateway was not available when the process started
Disabled == ~db \/ ~messaging

\* C17: when the store or the gateway is unavailable at startup, no timer is
\* ever set, and every invocation of the cycle, the manual trigger included,
\* returns at once without a store read, a store write, a gateway call or an
\* error, for as long as the process runs.
C17_DisabledDispatcherIsInert ==
  /\ [](Disabled =>
          /\ startupAt = None
          /\ intervalAt = None
          /\ faults = 0
          /\ pendingDel = {}
          /\ \A r \in ReminderIds : lastSend[r] = None
          /\ \A c \in Slots :
               /\ cyc[c].pc \in {"idle", "done"}
               /\ cyc[c].pc = "done" => cyc[c].outcome = "skipped"
               /\ cyc[c].fetched = {}
               /\ cyc[c].attempted = {})
  /\ [][Disabled => (Disabled' /\ UNCHANGED << store, gateway, clock >>)]_vars

\* C17 witness: with the gateway unavailable, the scheduler has started
\* without timers and a manual trigger has returned without doing anything.
C17_Witness ==
  \E c \in Slots :
    /\ db
    /\ ~messaging
    /\ started
    /\ triggers = 1
    /\ cyc[c].pc = "done"
    /\ cyc[c].src = "manual"
    /\ cyc[c].outcome = "skipped"

\* the fields of a reminder that the dispatcher only reads
Payload(doc) == << doc.status, doc.dueDate, doc.itemId, doc.itemName, doc.category >>

\* C18: no step creates a reminder or changes the status, dueDate, itemId,
\* itemName or category of one; a userId is only written onto a reminder
\* (a missing one is filled in, never replaced by another), a
\* lastNotificationSent is only set, and only reminders without userId are
\* deleted.
C18_ReminderFrame ==
  [][/\ DOMAIN reminders' \subseteq DOMAIN reminders
     /\ \A r \in DOMAIN reminders :
          /\ Deletes(r) => reminders[r].userId = NoId
          /\ r \in DOMAIN reminders' =>
               /\ Payload(reminders'[r]) = Payload(reminders[r])
               /\ DOMAIN reminders'[r] = DOMAIN reminders[r]
               /\ reminders'[r].userId # reminders[r].userId
                    => reminders[r].userId = NoId /\ reminders'[r].userId \in UserIds
               /\ reminders'[r].lastNotificationSent # Stamp(r)
                    => reminders'[r].lastNotificationSent # NoStamp]_vars

\* C18 witness: one cycle has backfilled and stamped one reminder and
\* deleted another.
C18_Witness ==
  \E c \in Slots : \E j, k \in 1..Len(cyc[c].docs) :
    /\ cyc[c].pc = "done"
    /\ cyc[c].docs[j].userId = NoId
    /\ cyc[c].docs[j].id \in DOMAIN reminders
    /\ reminders[cyc[c].docs[j].id].userId \in UserIds
    /\ Stamp(cyc[c].docs[j].id) # NoStamp
    /\ Actionable(cyc[c].docs[j].id)
    /\ cyc[c].docs[k].id \notin DOMAIN reminders

\* C19: when the multicast send for a reminder returns, whatever the
\* per-token results, the cycle goes on to write lastNotificationSent, and
\* the write, when it succeeds, sets it to the time taken at the return, so
\* that every scan less than 5 minutes later leaves the reminder out; when
\* the send throws, the step writes nothing, and a cycle that does not
\* overlap another ends with the reminder still outside the debounce
\* window, so that the next scan selects it while it is due.
C19_StampOnReturnOnly ==
  /\ [](\A c \in Slots : cyc[c].pc = "done" =>
          /\ \A r \in cyc[c].threw :
               ~overlap => (r \in DOMAIN reminders /\ ~Debounced(r, cyc[c].now))
          /\ \A r \in cyc[c].attempted \ cyc[c].threw :
               Cardinality(cyc[c].threw) = faults =>
                 /\ r \in DOMAIN reminders
                 /\ Stamp(r) # NoStamp
                 /\ ~overlap => DateParse(Stamp(r)) >= cyc[c].now)
  /\ [][\A c \in Slots :
          /\ (cyc[c].pc = "send" /\ cyc'[c] # cyc[c]) =>
               /\ UNCHANGED << reminders, items, tokens, pendingDel >>
               /\ \/ /\ cyc'[c].pc = "mark"
                     /\ cyc'[c].stamp = toISOString(clock)
                     /\ Len(cyc'[c].resp) = Len(cyc[c].toks)
                     /\ CurrentReminder(cyc'[c]) = CurrentReminder(cyc[c])
                  \/ /\ CurrentReminder(cyc[c]) \in cyc'[c].threw
                     /\ cyc'[c].failedCount = cyc[c].failedCount + 1
          /\ ( /\ cyc[c].pc = "mark"
               /\ cyc'[c] # cyc[c]
               /\ faults' = faults
               /\ CurrentReminder(cyc[c]) \in DOMAIN reminders )
             => reminders'[CurrentReminder(cyc[c])].lastNotificationSent = cyc[c].stamp
          /\ Selects(c) =>
               \A r \in DOMAIN reminders :
                 /\ Debounced(r, cyc[c].now) => r \notin Ids(cyc'[c].docs)
                 /\ (DueBy(r, cyc[c].now) /\ Actionable(r) /\ Stamp(r) = NoStamp)
                      => r \in Ids(cyc'[c].docs)]_vars

\* C19 witness: in one cycle the send of one reminder threw and left it
\* without a stamp, and the send of another, to a user whose only token
\* failed, returned and the reminder was stamped.
C19_Witness ==
  \E c \in Slots : \E a, b \in DOMAIN reminders :
    /\ cyc[c].pc = "done"
    /\ a \in cyc[c].threw
    /\ Stamp(a) = NoStamp
    /\ b \in cyc[c].attempted \ cyc[c].threw
    /\ reminders[b].userId = "u2"
    /\ gateway["tokD"] = Invalid
    /\ cyc[c].sentCount = 0
    /\ Stamp(b) # NoStamp

\* C20: when the token fetch of a group returns no token, the step issues
\* no send and writes nothing, counts no failure, and goes on to the token
\* fetch of the next group, if there is one; a cycle in which no call fails
\* ends with every group fetched, with no send for the reminders of a group
\* without tokens, and every other group sent.
C20_EmptyGroupSkipped ==
  /\ [](\A c \in Slots :
          (cyc[c].pc = "done" /\ cyc[c].outcome = "completed" /\ faults = 0) =>
            \A g \in 1..Len(cyc[c].byUser) :
              /\ cyc[c].byUser[g].user \in cyc[c].fetched
              /\ IF cyc[c].byUser[g].user \in cyc[c].served
                 THEN Members(cyc[c], g) \subseteq cyc[c].attempted
                 ELSE Members(cyc[c], g) \cap cyc[c].attempted = {})
  /\ [][\A c \in Slots :
          ( /\ cyc[c].pc = "tokens"
            /\ cyc'[c] # cyc[c]
            /\ faults' = faults
            /\ tokens[CurrentUser(cyc[c])] = {} )
          => /\ UNCHANGED << reminders, items, tokens, pendingDel, lastSend >>
             /\ cyc'[c].attempted = cyc[c].attempted
             /\ cyc'[c].served = cyc[c].served
             /\ cyc'[c].failedCount = cyc[c].failedCount
             /\ cyc'[c].threw = cyc[c].threw
             /\ IF cyc[c].g < Len(cyc[c].byUser)
                THEN /\ cyc'[c].pc = "tokens"
                     /\ cyc'[c].g = cyc[c].g + 1
                ELSE /\ cyc'[c].pc = "done"
                     /\ cyc'[c].outcome = "completed"]_vars

\* C20 witness: the first group's user has no tokens, its reminder was not
\* sent and has no stamp; the second group's reminder was sent and stamped.
C20_Witness ==
  \E c \in Slots :
    /\ cyc[c].pc = "done"
    /\ cyc[c].outcome = "completed"
    /\ Len(cyc[c].byUser) = 2
    /\ tokens[cyc[c].byUser[1].user] = {}
    /\ cyc[c].byUser[1].user \notin cyc[c].served
    /\ \A r \in Members(cyc[c], 1) : r \notin cyc[c].attempted /\ Stamp(r) = NoStamp
    /\ \A r \in Members(cyc[c], 2) : r \in cyc[c].attempted /\ Stamp(r) # NoStamp
    /\ cyc[c].failedCount = 0

\* the step issues a multicast send of invocation c
IssuesSend(c) ==
  /\ cyc'[c].pc = "send"
  /\ cyc[c].pc # "send" \/ cyc'[c].k # cyc[c].k \/ cyc'[c].g # cyc[c].g

\* C21: every multicast send a cycle issues is for one reminder of the
\* current group that the cycle has not sent before; no reminder is in two
\* groups or twice in one, and no two groups have the same user; and a cycle
\* in which no call fails ends having sent exactly the reminders of the
\* groups whose user had at least one token.
C21_OneSendPerReminder ==
  /\ [](\A c \in Slots :
          /\ Len(cyc[c].docs) = Cardinality(Ids(cyc[c].docs))
          /\ \A g \in 1..Len(cyc[c].byUser) :
               /\ Len(cyc[c].byUser[g].rems) = Cardinality(Members(cyc[c], g))
               /\ Members(cyc[c], g) \subseteq Ids(cyc[c].docs)
               /\ \A h \in 1..Len(cyc[c].byUser) : h # g =>
                    /\ cyc[c].byUser[h].user # cyc[c].byUser[g].user
                    /\ Members(cyc[c], h) \cap Members(cyc[c], g) = {}
          /\ (cyc[c].pc = "done" /\ cyc[c].outcome = "completed" /\ faults = 0) =>
               cyc[c].attempted =
                 UNION {Members(cyc[c], g) : g \in {x \in 1..Len(cyc[c].byUser) :
                                                     cyc[c].byUser[x].user \in cyc[c].served}})
  /\ [][\A c \in Slots : IssuesSend(c) =>
          /\ CurrentReminder(cyc'[c]) \notin cyc[c].attempted
          /\ cyc'[c].attempted = cyc[c].attempted \cup {CurrentReminder(cyc'[c])}
          /\ CurrentReminder(cyc'[c]) \in Members(cyc'[c], cyc'[c].g)
          /\ cyc'[c].toks # << >>]_vars

\* C21 witness: a cycle without a failed call has sent the two reminders of
\* u1 and the reminder of u2, each once.
C21_Witness ==
  \E c \in Slots :
    /\ cyc[c].pc = "done"
    /\ cyc[c].outcome = "completed"
    /\ faults = 0
    /\ Len(cyc[c].byUser) = 2
    /\ Len(cyc[c].byUser[1].rems) = 2
    /\ Cardinality(cyc[c].attempted) = 3
    /\ cyc[c].served = {"u1", "u2"}

\* the group of st keyed by user u holds reminder r
InGroupOf(st, u, r) ==
  \E g \in 1..Len(st.byUser) : st.byUser[g].user = u /\ r \in Members(st, g)

\* C22: when the sibling query of a reminder without userId, whose Item has
\* no userId, returns a reminder carrying a non-empty userId, the cycle
\* adopts the userId u of the first such reminder; when both writes return,
\* the Item and the reminder carry u and the reminder is in u's group; and a
\* cycle in which no call fails sends it if u has a token.
C22_SiblingOwnerAdopted ==
  /\ [](\A c \in Slots :
          /\ cyc[c].pc = "backfillBoth" =>
               /\ cyc[c].userId # NoId
               /\ CurrentDoc(cyc[c]).userId = NoId
          /\ (cyc[c].pc = "done" /\ cyc[c].outcome = "completed" /\ faults = 0) =>
               \A u \in cyc[c].served : \A r \in ReminderIds :
                 InGroupOf(cyc[c], u, r) => r \in cyc[c].attempted)
  /\ [][\A c \in Slots :
          /\ ( /\ cyc[c].pc = "siblings"
               /\ cyc'[c] # cyc[c]
               /\ faults' = faults
               /\ items[CurrentDoc(cyc[c]).itemId].userId = NoId
               /\ \E j \in 1..Len(SiblingQuery(reminders, CurrentDoc(cyc[c]).itemId)) :
                    HasUserId(reminders[SiblingQuery(reminders, CurrentDoc(cyc[c]).itemId)[j]]) )
             => /\ cyc'[c].pc = "backfillBoth"
                /\ cyc'[c].userId = OwnerOf(CurrentDoc(cyc[c]))
                /\ \E r \in OwnedSiblings(CurrentDoc(cyc[c]).itemId) :
                     reminders[r].userId = cyc'[c].userId
          /\ ( /\ cyc[c].pc = "backfillBoth"
               /\ cyc'[c] # cyc[c]
               /\ cyc'[c].outcome # "aborted" )
             => /\ reminders'[CurrentDoc(cyc[c]).id].userId = cyc[c].userId
                /\ items'[CurrentDoc(cyc[c]).itemId].userId = cyc[c].userId
                /\ InGroupOf(cyc'[c], cyc[c].userId, CurrentDoc(cyc[c]).id)]_vars

\* C22 witness: r1 and its Item had no userId; the tenth reminder of the
\* Item carries u1; the cycle has written u1 onto both and sent r1.
C22_Witness ==
  \E c \in Slots :
    /\ cyc[c].pc = "done"
    /\ cyc[c].outcome = "completed"
    /\ DOMAIN reminders = {ReminderOrder[j] : j \in 1..SiblingLimit}
    /\ cyc[c].docs[1].id = "r1"
    /\ cyc[c].docs[1].userId = NoId
    /\ reminders["r1"].userId = "u1"
    /\ items["i1"].userId = "u1"
    /\ InGroupOf(cyc[c], "u1", "r1")
    /\ "r1" \in cyc[c].attempted
    /\ Stamp("r1") # NoStamp

\* C23: when the backfill of a reminder without userId, whose Item carries
\* userId u, returns, the reminder carries u and the Item is as it was; a
\* userId on a reminder is never changed or removed afterwards, and every
\* scan made after the write reads it, so that no later cycle fetches the
\* Item for this reminder: an Item is fetched, and siblings are queried,
\* only for a reminder scanned without userId.
C23_BackfillSavesLaterLookups ==
  /\ [](\A c \in Slots : Resolving(cyc[c]) => CurrentDoc(cyc[c]).userId = NoId)
  /\ [][/\ \A r \in DOMAIN reminders : reminders[r].userId # NoId =>
             /\ r \in DOMAIN reminders'
             /\ reminders'[r].userId = reminders[r].userId
        /\ \A c \in Slots :
             /\ ( /\ cyc[c].pc = "backfill"
                  /\ cyc'[c] # cyc[c]
                  /\ cyc'[c].outcome # "aborted" )
                => /\ cyc[c].userId # NoId
                   /\ reminders'[CurrentDoc(cyc[c]).id].userId = cyc[c].userId
                   /\ items' = items
                   /\ items[CurrentDoc(cyc[c]).itemId].userId = cyc[c].userId
                   /\ InGroupOf(cyc'[c], cyc[c].userId, CurrentDoc(cyc[c]).id)
             /\ Selects(c) =>
                  \A j \in 1..Len(cyc'[c].docs) :
                    cyc'[c].docs[j].userId = reminders[cyc'[c].docs[j].id].userId]_vars

\* C23 witness: r1, stored without userId, was backfilled from its Item by
\* an earlier cycle; a later cycle has scanned it with userId u1 and gone
\* straight to the token fetch of u1's group.
C23_Witness ==
  \E c \in Slots :
    /\ "r1" \in DOMAIN reminders
    /\ reminders["r1"].dueDate = toISOString(DueSoon)
    /\ cyc[c].pc = "tokens"
    /\ cyc[c].now > BootTime + StartupDelayMs
    /\ cyc[c].docs[1].id = "r1"
    /\ cyc[c].docs[1].userId = "u1"
    /\ reminders["r1"].userId = "u1"
    /\ items["i1"].userId = "u1"
    /\ InGroupOf(cyc[c], "u1", "r1")

\* the reminders of the scan of st without userId whose itemId names an
\* Item that does not exist
Itemgone(st) ==
  {st.docs[j].id : j \in {x \in 1..Len(st.docs) :
     /\ st.docs[x].userId = NoId
     /\ st.docs[x].itemId # NoId
     /\ ~Exists(items, st.docs[x].itemId)}}

\* the reminders of the scan of st that carry a userId
Owned(st) ==
  {st.docs[j].id : j \in {x \in 1..Len(st.docs) : st.docs[x].userId # NoId}}

\* C24: when the fetch of the Item of a reminder without userId finds no
\* Item, the cycle deletes the reminder (the deletion succeeding) and puts
\* it in no group and no send; after the deletion, whether it succeeded or
\* not, the loop goes on with the next reminder, so that a cycle in which no
\* call fails ends with every such reminder gone and every reminder that
\* carries a userId in its user's group.
C24_MissingItemOrphanDeleted ==
  /\ [](\A c \in Slots :
          /\ Itemgone(cyc[c]) \cap (Grouped(cyc[c]) \cup cyc[c].attempted) = {}
          /\ (cyc[c].pc = "done" /\ cyc[c].outcome = "completed" /\ faults = 0) =>
               /\ Itemgone(cyc[c]) \cap DOMAIN reminders = {}
               /\ Owned(cyc[c]) \subseteq Grouped(cyc[c]))
  /\ [][\A c \in Slots :
          /\ ( /\ cyc[c].pc = "getItem"
               /\ cyc'[c] # cyc[c]
               /\ faults' = faults
               /\ CurrentDoc(cyc[c]).id \in Itemgone(cyc[c]) )
             => /\ cyc'[c].pc = "delOrphan"
                /\ cyc'[c].i = cyc[c].i
                /\ UNCHANGED << reminders, items >>
          /\ (cyc[c].pc = "delOrphan" /\ cyc'[c] # cyc[c]) =>
               /\ cyc'[c].i > cyc[c].i
               /\ cyc'[c].outcome # "aborted"
               /\ cyc'[c].pc = "done" => cyc'[c].byUser = << >>
               /\ (faults' = faults /\ CurrentDoc(cyc[c]).id \in Itemgone(cyc[c]))
                    => CurrentDoc(cyc[c]).id \notin DOMAIN reminders'
               /\ \A j \in (cyc[c].i + 1)..(cyc'[c].i - 1) :
                    cyc[c].docs[j].id \in Grouped(cyc'[c])]_vars

\* C24 witness: r1, without userId, names an Item that does not exist and is
\* listed first; the cycle has deleted it and sent r2, listed after it.
C24_Witness ==
  \E c \in Slots :
    /\ cyc[c].pc = "done"
    /\ cyc[c].outcome = "completed"
    /\ Len(cyc[c].docs) = 2
    /\ cyc[c].docs[1].id \in Itemgone(cyc[c])
    /\ cyc[c].docs[1].id \notin DOMAIN reminders
    /\ cyc[c].docs[2].id \in cyc[c].attempted
    /\ Stamp(cyc[c].docs[2].id) # NoStamp

\* the step starts an invocation from a timer callback in slot c
TimerCycleStarts(c) ==
  cyc[c].pc = "idle" /\ cyc'[c].pc # "idle" /\ cyc'[c].src = "timer"

BlockedOn(c, r) == cyc[c].pc = "send" /\ CurrentReminder(cyc[c]) = r

\* the stamp of r is the one cycle c saw when it selected r: no cycle has
\* written lastNotificationSent since
Unstamped(c, r) ==
  \/ Stamp(r) = NoStamp
  \/ DateParse(Stamp(r)) <= cyc[c].now - DebounceMs

\* C26: while a cycle awaits the gateway's answer for reminder r it has
\* written nothing for that send, and a step in which neither it nor another
\* cycle moves and no token deletion settles leaves the store as it is; r
\* changes only by a step of another cycle.  A cycle that started no earlier
\* and whose due query returns meanwhile selects r again if r's stamp was not
\* written, and when it ends without a failed call it has sent r if r's user
\* had a token.
C26_HangLeavesReminderEligible ==
  /\ [](\A c \in Slots : \A r \in ReminderIds : BlockedOn(c, r) =>
          /\ cyc[c].stamp = NoStamp
          /\ cyc[c].resp = << >>
          /\ \A o \in Slots \ {c} :
               ( /\ cyc[o].pc = "done"
                 /\ cyc[o].outcome = "completed"
                 /\ faults = 0 )
               => \A u \in cyc[o].served :
                    InGroupOf(cyc[o], u, r) => r \in cyc[o].attempted)
  /\ [][\A c \in Slots : \A r \in ReminderIds :
          (BlockedOn(c, r) /\ cyc'[c] = cyc[c]) =>
            /\ ((\A o \in Slots : cyc'[o] = cyc[o]) /\ pendingDel' = pendingDel)
                 => store' = store
            /\ (r \in DOMAIN reminders /\ (r \notin DOMAIN reminders' \/ reminders'[r] # reminders[r]))
                 => \E o \in Slots \ {c} : cyc'[o] # cyc[o]
            /\ \A o \in Slots \ {c} :
                 ( /\ Selects(o)
                   /\ cyc[o].now >= cyc[c].now
                   /\ r \in DOMAIN reminders
                   /\ Unstamped(c, r) )
                 => r \in Ids(cyc'[o].docs)]_vars

\* C26 witness: the startup cycle still awaits the gateway's answer for r1,
\* which an earlier run had stamped; the cycle of the interval tick five
\* minutes after boot has selected r1 and issued its own send for it.
C26_Witness ==
  \E c, o \in Slots :
    /\ c # o
    /\ BlockedOn(c, "r1")
    /\ cyc[c].now = BootTime + StartupDelayMs
    /\ Stamp("r1") = StampedBefore
    /\ BlockedOn(o, "r1")
    /\ cyc[o].src = "timer"
    /\ cyc[o].now = BootTime + IntervalMs

Outcomes == {"skipped", "empty", "completed", "aborted"}

\* C27: every invocation ends by fulfilling its promise, whatever call
\* failed inside it: a failed call leaves the invocation running or ended,
\* never rejected; and every manual trigger that is answered is answered
\* with success: true, also when its invocation was aborted by a failed call
\* or skipped because Firebase is unavailable.
C27_NeverRejects ==
  /\ [](/\ \A c \in Slots : cyc[c].pc = "done" =>
             /\ cyc[c].outcome \in Outcomes
             /\ Settlement(cyc[c].outcome) = "fulfilled"
        /\ answer # NoAnswer =>
             /\ answer.success
             /\ answer.status = 200
             /\ answer.outcome \in Outcomes
             /\ (~db \/ ~messaging) => answer.outcome = "skipped")
  /\ [][\A c \in Slots :
          /\ (faults' # faults /\ cyc'[c] # cyc[c]) =>
               /\ Running(c)
               /\ cyc'[c].pc # "idle"
               /\ cyc'[c].pc = "done" => cyc'[c].outcome \in {"aborted", "completed"}
          /\ (cyc[c].pc = "done" /\ cyc[c].src = "manual" /\ cyc'[c].pc = "idle") =>
               answer' = [outcome |-> cyc[c].outcome, status |-> 200, success |-> TRUE]]_vars

\* C27 witness: the invocation of a manual trigger was aborted by a failed
\* store call, and the trigger was answered with success: true.
C27_Witness ==
  /\ answer.outcome = "aborted"
  /\ answer.success
  /\ faults > 0

\* a manual trigger was answered while Firebase was unavailable
C27_SkippedAnswered == answer.outcome = "skipped" /\ answer.success /\ ~db

\* the token documents of u that a multicast to toks with answers resp marks
\* as permanently failed, as deletion requests
Requests(u, toks, resp) == {<< u, t >> : t \in PrunedDocs(toks, resp)}

\* C28: a cycle fetches the tokens of a group once, before the group's first
\* send, and addresses every send of the group to that same list: the list
\* is not read again and does not shrink when a token of it is pruned.  The
\* gateway is asked about every token of the list, also one whose document
\* is already deleted, and when the stamp write returns the deletion of
\* every permanently failed token is requested, again if it was before.
C28_TokenListReusedInGroup ==
  [][\A c \in Slots :
       /\ IssuesSend(c) =>
            IF cyc'[c].k = 1
            THEN cyc[c].pc = "tokens"
                 /\ cyc'[c].toks = InOrder(TokenOrder, tokens[CurrentUser(cyc[c])])
            ELSE cyc[c].pc \in {"send", "mark"}
                 /\ cyc'[c].g = cyc[c].g
                 /\ cyc'[c].toks = cyc[c].toks
       /\ (cyc[c].pc = "send" /\ cyc'[c].pc = "mark") =>
            /\ cyc'[c].toks = cyc[c].toks
            /\ Len(cyc'[c].resp) = Len(cyc[c].toks)
            /\ \A j \in 1..Len(cyc[c].toks) : cyc'[c].resp[j] = gateway[cyc[c].toks[j]]
       /\ (cyc[c].pc = "mark" /\ cyc'[c] # cyc[c] /\ faults' = faults
             /\ Exists(reminders, CurrentReminder(cyc[c]))) =>
            pendingDel' = pendingDel \cup Requests(CurrentUser(cyc[c]), cyc[c].toks, cyc[c].resp)]_vars

\* C28 witness: the token tokC of u1 failed permanently in the send of u1's
\* first reminder and its document was deleted; the send of u1's second
\* reminder addressed it again and its deletion is requested once more.
C28_Witness ==
  \E c \in Slots :
    /\ faults = 0
    /\ cyc[c].pc = "done"
    /\ cyc[c].g \in 1..Len(cyc[c].byUser)
    /\ CurrentUser(cyc[c]) = "u1"
    /\ cyc[c].k = 2
    /\ Len(cyc[c].resp) = 3
    /\ cyc[c].resp[3] = Gone
    /\ "tokC" \notin tokens["u1"]
    /\ << "u1", "tokC" >> \in pendingDel

\* the step is the rejection of cycle c's write of lastNotificationSent
StampWriteFails(c) ==
  /\ cyc[c].pc = "mark"
  /\ cyc'[c] # cyc[c]
  /\ faults' # faults \/ ~Exists(reminders, CurrentReminder(cyc[c]))

\* C29: a token deletion is requested only in the step in which the write
\* of lastNotificationSent of the send returns.  When that write rejects,
\* the step requests no deletion and deletes no token, leaves the reminder
\* as it was (in a run without overlapping cycles: present, upcoming or
\* overdue, due and not debounced for any cycle that starts from now on),
\* leaves the sent count unchanged although the multicast had successes,
\* and adds exactly one to the failure count.
C29_NoPruneWithoutStamp ==
  [][/\ (pendingDel' \ pendingDel # {}) =>
          \E c \in Slots :
            /\ cyc[c].pc = "mark"
            /\ cyc'[c] # cyc[c]
            /\ faults' = faults
            /\ reminders'[CurrentReminder(cyc[c])].lastNotificationSent = cyc[c].stamp
            /\ pendingDel' \ pendingDel \subseteq
                  Requests(CurrentUser(cyc[c]), cyc[c].toks, cyc[c].resp)
     /\ \A c \in Slots : StampWriteFails(c) =>
          /\ pendingDel' = pendingDel
          /\ store' = store
          /\ cyc'[c].sentCount = cyc[c].sentCount
          /\ cyc'[c].failedCount = cyc[c].failedCount + 1
          /\ cyc'[c].pc # "done" \/ cyc'[c].outcome = "completed"
          /\ ~overlap =>
               /\ CurrentReminder(cyc[c]) \in DOMAIN reminders'
               /\ Actionable(CurrentReminder(cyc[c]))
               /\ DueBy(CurrentReminder(cyc[c]), clock)
               /\ ~Debounced(CurrentReminder(cyc[c]), clock)]_vars

\* C29 witness: the multicast for the only reminder of u1's group had a
\* success and a permanently failed token, the stamp write was rejected, and
\* the cycle ended with sent 0, failed 1, no deletion requested and the
\* reminder unstamped.
C29_Witness ==
  \E c \in Slots :
    /\ cyc[c].pc = "done"
    /\ cyc[c].outcome = "completed"
    /\ faults = 1
    /\ cyc[c].g \in 1..Len(cyc[c].byUser)
    /\ cyc[c].k = 1
    /\ SuccessCount(cyc[c].resp) > 0
    /\ PrunedDocs(cyc[c].toks, cyc[c].resp) # {}
    /\ cyc[c].sentCount = 0
    /\ cyc[c].failedCount = 1
    /\ cyc[c].threw = {}
    /\ pendingDel = {}
    /\ CurrentReminder(cyc[c]) \in DOMAIN reminders
    /\ Stamp(CurrentReminder(cyc[c])) = NoStamp

\* the interval ticks within the uptime of the model
Ticks == {BootTime + j * IntervalMs : j \in 1..(MaxUptime \div IntervalMs)}

\* the reminders that are upcoming or overdue in some store
Watched == {ReminderOrder[j] : j \in 1..3}

\* before the interval tick at d: reminder r carries its owner, who has a
\* token the gateway accepts, is upcoming or overdue, due at d, and its
\* debounce window has elapsed at d
ReadyAt(r, d) ==
  /\ started /\ ~Disabled
  /\ intervalAt = d
  /\ clock < d
  /\ faults = 0
  /\ r \in DOMAIN reminders
  /\ HasUserId(reminders[r])
  /\ \E t \in tokens[reminders[r].userId] : gateway[t] = Live
  /\ Actionable(r)
  /\ DueBy(r, d)
  /\ ~Debounced(r, d)

\* C30: no step of the dispatcher changes the status or the due date of a
\* reminder; every due query that returns selects every due, upcoming or
\* overdue reminder whose debounce window has elapsed, stamped before or
\* not; and a reminder that is ready before an interval tick is sent again
\* at that tick or later, unless a call fails or a cycle in between has
\* stamped it within the debounce window of the tick.
C30_RenotifiedWhileEligible ==
  /\ [][\A r \in DOMAIN reminders \cap DOMAIN reminders' :
          /\ reminders'[r].status = reminders[r].status
          /\ reminders'[r].dueDate = reminders[r].dueDate]_vars
  /\ [][\A c \in Slots : Selects(c) =>
          \A r \in DOMAIN reminders :
            (Actionable(r) /\ DueBy(r, cyc[c].now) /\ ~Debounced(r, cyc[c].now))
              => r \in Ids(cyc'[c].docs)]_vars
  /\ \A d \in Ticks : \A r \in Watched :
       ReadyAt(r, d) ~>
         \/ lastSend[r] >= d
         \/ faults > 0
         \/ r \in DOMAIN reminders /\ Debounced(r, d)

\* C30 witness: r1 was sent and stamped by the cycle of a manual trigger at
\* boot; five minutes later the cycle of the interval tick has sent it again
\* and awaits the write of the new stamp; r1 is still upcoming.
C30_Witness ==
  \E c \in Slots :
    /\ cyc[c].pc = "mark"
    /\ cyc[c].src = "timer"
    /\ cyc[c].now = BootTime + IntervalMs
    /\ CurrentReminder(cyc[c]) = "r1"
    /\ SuccessCount(cyc[c].resp) > 0
    /\ "r1" \in DOMAIN reminders
    /\ Stamp("r1") = toISOString(BootTime)
    /\ reminders["r1"].status = "upcoming"
    /\ lastSend["r1"] = BootTime + IntervalMs

====
